---- MODULE Spec2Model ----
(***************************************************************************)
(* Model of the validation-error normaliser of read-config-file            *)
(* (ajvErrorNormalizer: filterErrors, SchemeErrorPrinter.getSchemaPart,    *)
(* getSchemaPartText, formatSchema) and of its caller validateConfig.      *)
(*                                                                         *)
(* Three specifications share the module:                                  *)
(*   SpecMerge  - filterErrors run over a bounded list of error records;   *)
(*   SpecRender - getSchemaPartText / formatSchema run over a bounded      *)
(*                family of root schema documents;                         *)
(*   SpecFind   - findAndReadConfig run over the outcomes of reading the   *)
(*                candidate files.                                         *)
(***************************************************************************)
EXTENDS Integers, Sequences, FiniteSets, TLC

(***************************************************************************)
(* Bounds of the model.                                                    *)
(***************************************************************************)
MaxErrors == 3      \* length of the validator's error array
MaxPathLen == 2     \* characters in a dataPath
MaxDepth == 12      \* nested formatSchema calls the call stack has room for
MaxCalls == 2       \* getSchemaPartText calls on one printer

PathChars == {".", "a", "b"}

VARIABLES
    \* ---- filterErrors ----
    errors,       \* the input array: errors[k] is the identity of the k-th record
    dataPath,     \* dataPath[id]: the record's dataPath, a sequence of characters
    children,     \* children[id]: the record's children field
    newErrors,    \* the local newErrors of filterErrors (sequence of identities)
    processed,    \* number of iterations of the for-of loop done so far
    fpc,          \* "off" | "loop" | "done" | "reported": position in the caller
    callbackArg,  \* the children fields of the records handed to errorMessage
    \* ---- SchemeErrorPrinter ----
    doc,          \* this.schemeData, the root schema document
    rpc,          \* "off" | "idle" | "resolve" | "format" | "text" | "done",
                  \* or how the call ended otherwise: "hung" | "threw" | "overflow"
    cur,          \* schemaPart of getSchemaPartText
    hops,         \* iterations of the while ($ref != null) loop so far
    stack,        \* the active formatSchema calls, outermost first
    arrays,       \* the prevSchemas arrays allocated so far, by identity
    schemaText,   \* schemaText of getSchemaPartText
    result,       \* the value getSchemaPartText returned
    calls,        \* getSchemaPartText calls made on this printer
    schemaPartArg,   \* the schemaPart the current getSchemaPartText call was given
    additionalPath,  \* its additionalPath argument; <<>> stands for null
    \* ---- findAndReadConfig ----
    variant,      \* "old" (main.ts) | "new" (with .js, .cjs, .ts): which source
    probedFiles,  \* the extensions of the candidates read so far, in order
    outcomes,     \* outcomes[k]: how the read of probedFiles[k] ended
    fstate,       \* "off" | "probing" | "returned" | "rejected"
    found         \* what findAndReadConfig resolved or rejected with

mergeVars == <<errors, dataPath, children, newErrors, processed, fpc, callbackArg>>
argVars == <<schemaPartArg, additionalPath>>
renderVars == <<doc, rpc, cur, hops, stack, arrays, schemaText, result, calls, argVars>>
findVars == <<variant, probedFiles, outcomes, fstate, found>>
vars == <<mergeVars, renderVars, findVars>>

(***************************************************************************)
(* Values of the children field of an error record.                        *)
(***************************************************************************)
Undefined == [tag |-> "undefined", items |-> <<>>]
Null == [tag |-> "null", items |-> <<>>]
ArrayOf(s) == [tag |-> "array", items |-> s]

RECURSIVE SeqsUpTo(_, _)
SeqsUpTo(S, n) ==
    IF n = 0 THEN {<<>>}
    ELSE LET shorter == SeqsUpTo(S, n - 1)
         IN  shorter \cup {Append(s, c) : s \in shorter, c \in S}

Paths == SeqsUpTo(PathChars, MaxPathLen)

(***************************************************************************)
(* String.prototype.includes: t occurs in s as a contiguous substring.     *)
(***************************************************************************)
Includes(s, t) ==
    \E k \in 0..(Len(s) - Len(t)) : SubSeq(s, k + 1, k + Len(t)) = t


\* The callback with the test narrowed to equal paths.
IsAbsorbedEqualOnly(oldPath, newPath) == oldPath = newPath

(***************************************************************************)
(* filterErrors, the callback of newErrors.filter: an old top-level error  *)
(* is taken out of newErrors when its dataPath includes the new dataPath.  *)
(***************************************************************************)
IsAbsorbed(oldPath, newPath) == Includes(oldPath, newPath)

\* The callback without the copy of the absorbed record's own children.
AbsorbIntoNoFlatten(acc, old, oldChildren) == acc \o <<old>>

(***************************************************************************)
(* What one absorbed oldError adds to the local children array: a copy of  *)
(* its own children when they are neither null nor undefined, then the     *)
(* oldError itself.                                                        *)
(***************************************************************************)
AbsorbInto(acc, old, oldChildren) ==
    (IF oldChildren.tag = "array" THEN acc \o oldChildren.items ELSE acc)
        \o <<old>>

\* The callback without the assignment oldError.children = null.
ClearChildrenSkipped(ch, old) == ch

(***************************************************************************)
(* `oldError.children = null` on the absorbed record.                      *)
(***************************************************************************)
ClearChildren(ch, old) == [ch EXCEPT ![old] = Null]

(***************************************************************************)
(* One pass of newErrors.filter(...) for the record `error`: the result is *)
(* the kept elements, the collected children and the children fields after *)
(* the callback's assignments (oldError.children = null).                  *)
(***************************************************************************)
RECURSIVE FilterPass(_, _, _, _, _, _)
FilterPass(old, k, path, kept, acc, ch) ==
    IF k > Len(old) THEN [kept |-> kept, acc |-> acc, ch |-> ch]
    ELSE LET o == old[k]
         IN  IF ~IsAbsorbed(dataPath[o], path)
             THEN FilterPass(old, k + 1, path, Append(kept, o), acc, ch)
             ELSE FilterPass(old, k + 1, path, kept,
                             AbsorbInto(acc, o, ch[o]),
                             ClearChildren(ch, o))

(***************************************************************************)
(*                    The root schema document (schemeData)                *)
(*                                                                         *)
(* A document is a JSON tree.  A node is identified by its position: the   *)
(* sequence of keys leading to it from the root.  doc maps every position  *)
(* that holds an object or an array to that node's scalar keywords; the    *)
(* object-valued keywords (items, additionalProperties, properties, allOf, *)
(* oneOf, anyOf and their members) are the positions one key further down. *)
(***************************************************************************)
N0 == [type |-> "",            \* schema.type; "" when absent
       minLength |-> -1,       \* schema.minLength; -1 when absent
       instanceof |-> "",      \* schema.instanceof; "" when absent
       ref |-> <<>>,           \* schema.$ref split on "/"; <<>> when absent
       hasEnum |-> FALSE,      \* schema.enum present
       enum |-> <<>>,          \* schema.enum
       required |-> <<>>,      \* schema.required; <<>> when absent
       addl |-> "",            \* schema.additionalProperties when a boolean
       keys |-> <<>>,          \* Object.keys of a properties object
       len |-> -1,             \* length, for an array (allOf/oneOf/anyOf)
       hasDescription |-> FALSE,
       description |-> <<>>]   \* schema.description, a sequence of characters

\* Values a schema variable can hold besides a node of the document.
UNDEF == <<"!undefined">>
TRUEV == <<"!true">>

IsNode(d, s) == s \in DOMAIN d

\* The document that holds the given <<position, node>> pairs.
DocOf(pairs) ==
    [q \in {pr[1] : pr \in pairs} |-> (CHOOSE pr \in pairs : pr[1] = q)[2]]

\* ---- the family of documents the model draws from ----
NoInline == [k |-> "none", to |-> <<>>]
IStr == [k |-> "str", to |-> <<>>]
IRef(t) == [k |-> "ref", to |-> t]

DefA == <<"definitions", "a">>
DefB == <<"definitions", "b">>

RefTargets ==
    { <<"#", "definitions", "a">>,
      <<"#", "definitions", "b">>,
      <<"#", "definitions", "a", "anyOf", "1">>,
      <<"#", "definitions", "a", "zz">> }

Inlines == {IStr} \cup {IRef(t) : t \in RefTargets}

InlinePairs(q, x) ==
    IF x.k = "none" THEN {}
    ELSE IF x.k = "str" THEN {<<q, [N0 EXCEPT !.type = "string"]>>}
    ELSE {<<q, [N0 EXCEPT !.ref = x.to]>>}

MemberPairs(q, key, xs) ==
    IF xs = <<>> THEN {}
    ELSE {<<Append(q, key), [N0 EXCEPT !.len = Len(xs)]>>}
         \cup UNION {InlinePairs(q \o <<key, ToString(i - 1)>>, xs[i]) :
                        i \in 1..Len(xs)}

PropertyPairs(q, has, names) ==
    IF ~has THEN {}
    ELSE {<<Append(q, "properties"), [N0 EXCEPT !.keys = names]>>}
         \cup {<<q \o <<"properties", names[i]>>,
                 [N0 EXCEPT !.type = "string", !.minLength = 1]>> :
                  i \in 1..Len(names)}

T0 == [n |-> N0, items |-> NoInline, addlNode |-> NoInline,
       allOf |-> <<>>, oneOf |-> <<>>, anyOf |-> <<>>,
       hasProps |-> FALSE, props |-> <<>>]

TemplatePairs(q, t) ==
    {<<q, t.n>>}
    \cup InlinePairs(Append(q, "items"), t.items)
    \cup InlinePairs(Append(q, "additionalProperties"), t.addlNode)
    \cup MemberPairs(q, "allOf", t.allOf)
    \cup MemberPairs(q, "oneOf", t.oneOf)
    \cup MemberPairs(q, "anyOf", t.anyOf)
    \cup PropertyPairs(q, t.hasProps, t.props)

MakeDoc(ta, tb) ==
    DocOf({<<(<<>>), N0>>, <<(<<"definitions">>), N0>>}
          \cup TemplatePairs(DefA, ta) \cup TemplatePairs(DefB, tb))

TStr == [T0 EXCEPT !.n.type = "string"]
TRef(t) == [T0 EXCEPT !.n.ref = t]
TArr(x) == [T0 EXCEPT !.n.type = "array", !.items = x]
TObjAddl(x) == [T0 EXCEPT !.n.type = "object", !.addlNode = x]
TObjAddlTrue == [T0 EXCEPT !.n.type = "object", !.n.addl = "true"]
TComb(kind, xs) ==
    IF kind = "allOf" THEN [T0 EXCEPT !.allOf = xs]
    ELSE IF kind = "oneOf" THEN [T0 EXCEPT !.oneOf = xs]
    ELSE [T0 EXCEPT !.anyOf = xs]

CombKinds == {"allOf", "oneOf", "anyOf"}

\* Shapes with nested and $ref'd parts, for the definition "a" ...
StructA ==
    {TStr, TObjAddlTrue}
    \cup {TRef(t) : t \in RefTargets}
    \cup {TArr(x) : x \in Inlines \cup {NoInline}}
    \cup {TObjAddl(x) : x \in Inlines}
    \cup {TComb(k, <<x, y>>) : k \in CombKinds, x \in Inlines, y \in Inlines}
    \cup {TComb(k, <<IStr, IStr, IRef(<<"#", "definitions", "a">>)>>) :
             k \in CombKinds}

\* ... and for the definition "b".
StructB ==
    {TStr}
    \cup {TRef(t) : t \in RefTargets}
    \cup {TArr(x) : x \in Inlines}
    \cup {TComb("anyOf", <<IStr, x>>) : x \in Inlines}

\* Single nodes in which keywords of several rows of formatSchema coexist.
EnumA == <<[t |-> "str", s |-> "x", i |-> 0]>>
EnumB == <<[t |-> "str", s |-> "x", i |-> 0], [t |-> "num", s |-> "", i |-> 1]>>

WithTail(t, tail) ==
    IF tail = "ref" THEN [t EXCEPT !.n.ref = <<"#", "definitions", "b">>]
    ELSE IF tail = "allOf" THEN [t EXCEPT !.allOf = <<IStr, IStr>>]
    ELSE IF tail = "oneOf" THEN [t EXCEPT !.oneOf = <<IStr, IStr>>]
    ELSE IF tail = "anyOf" THEN [t EXCEPT !.anyOf = <<IStr, IStr>>]
    ELSE IF tail = "enum" THEN [t EXCEPT !.n.hasEnum = TRUE, !.n.enum = EnumB]
    ELSE IF tail = "enum1" THEN [t EXCEPT !.n.hasEnum = TRUE, !.n.enum = EnumA]
    ELSE IF tail = "function" THEN [t EXCEPT !.n.instanceof = "Function"]
    ELSE IF tail = "regexp" THEN [t EXCEPT !.n.instanceof = "RegExp"]
    ELSE IF tail = "other" THEN [t EXCEPT !.n.instanceof = "Other"]
    ELSE t

Tails == {"none", "ref", "allOf", "oneOf", "anyOf", "enum", "enum1",
          "function", "regexp", "other"}
PropChoices == {<<"a">>, <<"a", "b">>, <<"b", "a">>}
RequiredChoices == {<<>>, <<"a">>, <<"b", "a">>}
MinLengths == {-1, 0, 1, 5}

Untyped ==
    {WithTail(WithTail([T0 EXCEPT !.n.type = ty], t1), t2) :
        ty \in {"", "integer"}, t1 \in Tails, t2 \in Tails}
    \cup {[T0 EXCEPT !.n.minLength = 5], [T0 EXCEPT !.n.type = "integer", !.n.minLength = 5]}

Typed ==
    {WithTail([T0 EXCEPT !.n.type = "string", !.n.minLength = m], t1) :
        m \in MinLengths, t1 \in Tails}
    \cup {WithTail([T0 EXCEPT !.n.type = ty], t1) :
             ty \in {"boolean", "number"}, t1 \in Tails}
    \cup {WithTail([T0 EXCEPT !.n.type = "array", !.items = x], t1) :
             x \in {IStr, NoInline}, t1 \in Tails}

AddlChoices ==
    {<<"", NoInline>>, <<"true", NoInline>>, <<"false", NoInline>>, <<"", IStr>>}

Objects ==
    {WithTail([T0 EXCEPT !.n.type = "object", !.hasProps = hp, !.props = ps,
                         !.n.required = rq, !.n.addl = ap[1], !.addlNode = ap[2]], t1) :
        hp \in BOOLEAN, ps \in PropChoices, rq \in RequiredChoices,
        ap \in AddlChoices, t1 \in {"none", "ref"}}

Descriptions ==
    { <<"x">>, <<" ", "x", "\n">>, <<"x", "\n", "\n", "y">>,
      <<"x", "\n", "y">>, <<"\n", "\n", "x">>, <<>> }

Described ==
    {[T0 EXCEPT !.n.type = "string", !.n.hasDescription = TRUE,
                !.n.description = d] : d \in Descriptions}

Documents ==
    {MakeDoc(ta, tb) : ta \in StructA, tb \in StructB}
    \cup {MakeDoc(ta, tb) : ta \in Untyped \cup Typed \cup Objects \cup Described,
                             tb \in {TStr, TArr(IRef(<<"#", "definitions", "a">>))}}


(***************************************************************************)
(*                          SchemeErrorPrinter                             *)
(***************************************************************************)

\* schema[key] for an object-valued key, or UNDEF.
Member(s, key) ==
    IF Append(s, key) \in DOMAIN doc THEN Append(s, key) ELSE UNDEF

(***************************************************************************)
(* getSchemaPart(path): split on "/", then from pathList[1] on step into   *)
(* schemaPart[pathList[i]] whenever that is truthy, else stay.  $ref paths *)
(* of the documents modelled name objects and arrays only.                 *)
(***************************************************************************)
RECURSIVE Descend(_, _, _)
Descend(schemaPart, pathList, i) ==
    IF i > Len(pathList) THEN schemaPart
    ELSE LET inner == Member(schemaPart, pathList[i])
         IN  IF inner # UNDEF THEN Descend(inner, pathList, i + 1)
             ELSE Descend(schemaPart, pathList, i + 1)

GetSchemaPart(path) == Descend(<<>>, path, 2)

\* schema.additionalProperties: a schema node, true, or something falsy.
AdditionalProperties(s) ==
    IF Member(s, "additionalProperties") # UNDEF
    THEN Member(s, "additionalProperties")
    ELSE IF doc[s].addl = "true" THEN TRUEV ELSE UNDEF

(***************************************************************************)
(* The branch of formatSchema a schema value takes (the if / else-if /     *)
(* switch cascade, top to bottom).  undefined has no property `type`: the  *)
(* read throws.  true has no properties at all: it falls to the raw dump.  *)
(***************************************************************************)
Branch(s) ==
    IF s = UNDEF THEN "throw"
    ELSE IF s = TRUEV THEN "raw"
    ELSE LET n == doc[s]
         IN  IF n.type = "string" THEN "string"
             ELSE IF n.type = "boolean" THEN "boolean"
             ELSE IF n.type = "number" THEN "number"
             ELSE IF n.type = "object" THEN
                  IF Member(s, "properties") # UNDEF THEN "objectProperties"
                  ELSE IF AdditionalProperties(s) # UNDEF THEN "objectAdditional"
                  ELSE "object"
             ELSE IF n.type = "array" THEN "array"
             ELSE IF n.instanceof = "Function" THEN "function"
             ELSE IF n.instanceof = "RegExp" THEN "RegExp"
             ELSE IF n.ref # <<>> THEN "ref"
             ELSE IF Member(s, "allOf") # UNDEF THEN "allOf"
             ELSE IF Member(s, "oneOf") # UNDEF THEN "oneOf"
             ELSE IF Member(s, "anyOf") # UNDEF THEN "anyOf"
             ELSE IF n.hasEnum THEN "enum"
             ELSE "raw"

(***************************************************************************)
(* schema.allOf.map(formatInnerSchema): map calls its callback with        *)
(* (element, index, array), so isAddSelf receives the index, which is      *)
(* falsy for the first member and truthy for every later one.              *)
(***************************************************************************)
MapIsAddSelf(index) == index # 0

(***************************************************************************)
(* The formatInnerSchema calls a formatSchema(schema) makes, in order.     *)
(***************************************************************************)
InnerCalls(s) ==
    LET b == Branch(s)
    IN  IF b = "objectAdditional"
        THEN <<[schema |-> AdditionalProperties(s), isAddSelf |-> FALSE]>>
        ELSE IF b = "array"
        THEN <<[schema |-> Member(s, "items"), isAddSelf |-> FALSE]>>
        ELSE IF b = "ref"
        THEN <<[schema |-> GetSchemaPart(doc[s].ref), isAddSelf |-> TRUE]>>
        ELSE IF b \in {"allOf", "oneOf", "anyOf"}
        THEN [i \in 1..doc[Append(s, b)].len |->
                 [schema |-> s \o <<b, ToString(i - 1)>>,
                  isAddSelf |-> MapIsAddSelf(i - 1)]]
        ELSE <<>>

RECURSIVE Join(_, _)
Join(parts, sep) ==
    IF parts = <<>> THEN ""
    ELSE IF Len(parts) = 1 THEN parts[1]
    ELSE parts[1] \o sep \o Join(Tail(parts), sep)

\* JSON.stringify of an enum literal.
JsonLiteral(v) == IF v.t = "str" THEN "\"" \o v.s \o "\"" ELSE ToString(v.i)

\* The `"key": value` lines of an object's scalar keywords, indented.
ScalarFields(n, indent) ==
    (IF n.type # "" THEN <<indent \o "\"type\": \"" \o n.type \o "\"">> ELSE <<>>)
    \o (IF n.minLength # -1
        THEN <<indent \o "\"minLength\": " \o ToString(n.minLength)>> ELSE <<>>)
    \o (IF n.instanceof # ""
        THEN <<indent \o "\"instanceof\": \"" \o n.instanceof \o "\"">> ELSE <<>>)

\* JSON.stringify(schema, null, 2) of a value that reached the last line of
\* formatSchema: true, an object holding scalar keywords only, or a
\* properties object (its keys in order, each an object of scalar keywords).
JsonStringify(s) ==
    IF s = TRUEV THEN "true"
    ELSE LET n == doc[s]
             fields ==
                 IF n.keys = <<>> THEN ScalarFields(n, "  ")
                 ELSE [k \in 1..Len(n.keys) |->
                         LET inner == ScalarFields(doc[Append(s, n.keys[k])], "    ")
                         IN  "  \"" \o n.keys[k] \o "\": "
                             \o (IF inner = <<>> THEN "{}"
                                 ELSE "{\n" \o Join(inner, ",\n") \o "\n  }")]
         IN  IF fields = <<>> THEN "{}"
             ELSE "{\n" \o Join(fields, ",\n") \o "\n}"

\* The entries with the test on required turned round.
PropertyEntriesInverted(s) ==
    LET keys == doc[Append(s, "properties")].keys
        required == doc[s].required
    IN  [i \in 1..Len(keys) |->
            IF \E r \in 1..Len(required) : required[r] = keys[i]
            THEN keys[i] \o "?" ELSE keys[i]]
        \o (IF AdditionalProperties(s) # UNDEF THEN <<"...">> ELSE <<>>)

\* The entries of `object { ... }`: Object.keys(schema.properties), each with
\* "?" unless listed in required, then "..." when additionalProperties is truthy.
PropertyEntries(s) ==
    LET keys == doc[Append(s, "properties")].keys
        required == doc[s].required
    IN  [i \in 1..Len(keys) |->
            IF \E r \in 1..Len(required) : required[r] = keys[i]
            THEN keys[i] ELSE keys[i] \o "?"]
        \o (IF AdditionalProperties(s) # UNDEF THEN <<"...">> ELSE <<>>)

(***************************************************************************)
(* What formatSchema(schema) returns, given the strings its                *)
(* formatInnerSchema calls returned.                                       *)
(***************************************************************************)
FormatSchemaText(s, parts) ==
    LET b == Branch(s)
    IN  IF b = "string" THEN
             IF doc[s].minLength = 1 THEN "non-empty string"
             ELSE IF doc[s].minLength > 1
                  THEN "string (min length " \o ToString(doc[s].minLength) \o ")"
                  ELSE "string"
        ELSE IF b \in {"boolean", "number", "object", "function", "RegExp"} THEN b
        ELSE IF b = "objectProperties"
             THEN "object { " \o Join(PropertyEntries(s), ", ") \o " }"
        ELSE IF b = "objectAdditional" THEN "object { <key>: " \o parts[1] \o " }"
        ELSE IF b = "array" THEN "[" \o parts[1] \o "]"
        ELSE IF b = "ref" THEN parts[1]
        ELSE IF b = "allOf" THEN Join(parts, " & ")
        ELSE IF b \in {"oneOf", "anyOf"} THEN Join(parts, " | ")
        ELSE IF b = "enum"
             THEN Join([i \in 1..Len(doc[s].enum) |-> JsonLiteral(doc[s].enum[i])], " | ")
        ELSE JsonStringify(s)

\* ---- description handling of getSchemaPartText ----
IsSpace(c) == c \in {" ", "\n"}

RECURSIVE TrimStart(_)
TrimStart(d) == IF d # <<>> /\ IsSpace(Head(d)) THEN TrimStart(Tail(d)) ELSE d

RECURSIVE TrimEnd(_)
TrimEnd(d) ==
    IF d # <<>> /\ IsSpace(d[Len(d)]) THEN TrimEnd(SubSeq(d, 1, Len(d) - 1)) ELSE d

Trim(d) == TrimEnd(TrimStart(d))

\* description.indexOf("\n\n"), 0-based, -1 when there is none.
TwoLineBreakPosition(d) ==
    LET hits == {k \in 0..(Len(d) - 2) : d[k + 1] = "\n" /\ d[k + 2] = "\n"}
    IN  IF hits = {} THEN -1 ELSE CHOOSE k \in hits : \A j \in hits : k <= j

DescriptionText(d) ==
    LET t == Trim(d)
        pos == TwoLineBreakPosition(t)
    IN  Join(IF pos < 0 THEN t ELSE SubSeq(t, 1, pos), "")

\* ---- the prevSchemas arrays ----
\* prevSchemas.push(schema) in its place: the receiver itself grows.
ConcatSelfInPlace(arrs, prev, schema) ==
    [arrays |-> [arrs EXCEPT ![prev] = Append(@, schema)], id |-> prev]

(***************************************************************************)
(* prevSchemas.concat(schema): a new array; the receiver is left as it is. *)
(***************************************************************************)
ConcatSelf(arrs, prev, schema) ==
    [arrays |-> Append(arrs, Append(arrs[prev], schema)), id |-> Len(arrs) + 1]

\* prevSchemas.indexOf(innerSchema) >= 0
InPrevSchemas(prev, innerSchema) ==
    \E k \in 1..Len(arrays[prev]) : arrays[prev][k] = innerSchema

Top == stack[Len(stack)]
Pending(f) == Len(f.parts) < Len(InnerCalls(f.schema))
NextCall(f) == InnerCalls(f.schema)[Len(f.parts) + 1]
Frame(s, prev) == [schema |-> s, prev |-> prev, parts |-> <<>>]

(***************************************************************************)
(* schemaPart[p] where p is a segment of additionalPath: the object or     *)
(* array under that key, true for additionalProperties: true, else         *)
(* something falsy.  The segments modelled name no other scalar keyword.   *)
(***************************************************************************)
Property(schemaPart, p) ==
    IF ~IsNode(doc, schemaPart) THEN UNDEF
    ELSE IF Member(schemaPart, p) # UNDEF THEN Member(schemaPart, p)
    ELSE IF p = "additionalProperties" THEN AdditionalProperties(schemaPart)
    ELSE UNDEF

(***************************************************************************)
(* `for (const p of additionalPath)`: step into schemaPart[p] when it is   *)
(* truthy; the loop goes on to the next segment in either case.            *)
(***************************************************************************)
RECURSIVE DescendAdditionalPath(_, _, _)
DescendAdditionalPath(schemaPart, path, i) ==
    IF i > Len(path) THEN schemaPart
    ELSE LET inner == Property(schemaPart, path[i])
         IN  IF inner # UNDEF THEN DescendAdditionalPath(inner, path, i + 1)
             ELSE DescendAdditionalPath(schemaPart, path, i + 1)

\* The additionalPath arguments: null, or what formatValidationError passes
\* for a `required` error, ["properties", missingProperty].
MissingProperties == {"a", "zz", "additionalProperties"}
AdditionalPaths == {<<>>} \cup {<<"properties", m>> : m \in MissingProperties}

\* schemaPart.$ref, <<>> when there is none.
RefOf(s) == IF IsNode(doc, s) THEN doc[s].ref ELSE <<>>

\* What `found` holds while nothing has been resolved or rejected.
Pending0 == [tag |-> "pending", file |-> "", result |-> ""]

FindOff ==
    /\ variant = "old"
    /\ probedFiles = <<>>
    /\ outcomes = <<>>
    /\ fstate = "off"
    /\ found = Pending0

RenderOff ==
    /\ doc = DocOf({<<(<<>>), N0>>})
    /\ rpc = "off"
    /\ cur = <<>>
    /\ hops = 0
    /\ stack = <<>>
    /\ arrays = <<>>
    /\ schemaText = ""
    /\ result = ""
    /\ calls = 0
    /\ schemaPartArg = <<>>
    /\ additionalPath = <<>>

MergeOff ==
    /\ errors = <<>>
    /\ dataPath = <<>>
    /\ children = <<>>
    /\ newErrors = <<>>
    /\ processed = 0
    /\ fpc = "off"
    /\ callbackArg = <<>>

RenderInit ==
    /\ doc \in Documents
    /\ rpc = "idle"
    /\ cur = <<>>
    /\ hops = 0
    /\ stack = <<>>
    /\ arrays = <<>>
    /\ schemaText = ""
    /\ result = ""
    /\ calls = 0
    /\ schemaPartArg = <<>>
    /\ additionalPath = <<>>
    /\ MergeOff
    /\ FindOff

(***************************************************************************)
(* getSchemaPartText(schemaPart) is called with a schema of the document   *)
(* (error.parentSchema).                                                   *)
(***************************************************************************)
GetSchemaPartTextCall ==
    /\ rpc \in {"idle", "done"}
    /\ calls < MaxCalls
    /\ \E start \in {DefA, DefB}, path \in AdditionalPaths :
          /\ schemaPartArg' = start
          /\ additionalPath' = path
          /\ cur' = DescendAdditionalPath(start, path, 1)
    /\ hops' = 0
    /\ schemaText' = ""
    /\ result' = ""
    /\ calls' = calls + 1
    /\ rpc' = "resolve"
    /\ UNCHANGED <<doc, stack, arrays, mergeVars, findVars>>

(***************************************************************************)
(* One iteration of `while (schemaPart.$ref != null)`.  The loop keeps no  *)
(* record of where it has been; once it has made as many iterations as the *)
(* document has nodes it is back on a node it left before and never ends.  *)
(***************************************************************************)
ResolveRef ==
    /\ rpc = "resolve"
    /\ RefOf(cur) # <<>>
    /\ IF hops >= Cardinality(DOMAIN doc)
       THEN /\ rpc' = "hung"
            /\ UNCHANGED <<cur, hops>>
       ELSE /\ cur' = GetSchemaPart(doc[cur].ref)
            /\ hops' = hops + 1
            /\ rpc' = rpc
    /\ UNCHANGED <<doc, stack, arrays, schemaText, result, calls, argVars, mergeVars, findVars>>

(***************************************************************************)
(* this.formatSchema(schemaPart): prevSchemas is undefined, so a new empty *)
(* array is made.                                                          *)
(***************************************************************************)
FormatSchemaCall ==
    /\ rpc = "resolve"
    /\ RefOf(cur) = <<>>
    /\ arrays' = Append(arrays, <<>>)
    /\ stack' = <<Frame(cur, Len(arrays) + 1)>>
    /\ rpc' = "format"
    /\ UNCHANGED <<doc, cur, hops, schemaText, result, calls, argVars, mergeVars, findVars>>

(***************************************************************************)
(* formatInnerSchema with a falsy isAddSelf: formatSchema(innerSchema,     *)
(* prevSchemas), the very same array.                                      *)
(***************************************************************************)
FormatInnerSchemaPlain ==
    /\ rpc = "format"
    /\ Top.schema # UNDEF
    /\ Pending(Top)
    /\ ~NextCall(Top).isAddSelf
    /\ Len(stack) < MaxDepth
    /\ stack' = Append(stack, Frame(NextCall(Top).schema, Top.prev))
    /\ UNCHANGED <<doc, rpc, cur, hops, arrays, schemaText, result, calls, argVars, mergeVars, findVars>>

(***************************************************************************)
(* formatInnerSchema with a truthy isAddSelf and innerSchema found in      *)
(* prevSchemas: "(recursive)".                                             *)
(***************************************************************************)
FormatInnerSchemaRecursive ==
    /\ rpc = "format"
    /\ Top.schema # UNDEF
    /\ Pending(Top)
    /\ NextCall(Top).isAddSelf
    /\ InPrevSchemas(Top.prev, NextCall(Top).schema)
    /\ stack' = [stack EXCEPT ![Len(stack)].parts = Append(@, "(recursive)")]
    /\ UNCHANGED <<doc, rpc, cur, hops, arrays, schemaText, result, calls, argVars, mergeVars, findVars>>

(***************************************************************************)
(* formatInnerSchema with a truthy isAddSelf otherwise:                    *)
(* formatSchema(innerSchema, prevSchemas.concat(schema)).                  *)
(***************************************************************************)
FormatInnerSchemaAddSelf ==
    /\ rpc = "format"
    /\ Top.schema # UNDEF
    /\ Pending(Top)
    /\ NextCall(Top).isAddSelf
    /\ ~InPrevSchemas(Top.prev, NextCall(Top).schema)
    /\ Len(stack) < MaxDepth
    /\ LET ext == ConcatSelf(arrays, Top.prev, Top.schema)
       IN  /\ arrays' = ext.arrays
           /\ stack' = Append(stack, Frame(NextCall(Top).schema, ext.id))
    /\ UNCHANGED <<doc, rpc, cur, hops, schemaText, result, calls, argVars, mergeVars, findVars>>

(***************************************************************************)
(* A further nested formatSchema call when the call stack is full:         *)
(* RangeError, maximum call stack size exceeded.                           *)
(***************************************************************************)
StackOverflow ==
    /\ rpc = "format"
    /\ Top.schema # UNDEF
    /\ Pending(Top)
    /\ NextCall(Top).isAddSelf => ~InPrevSchemas(Top.prev, NextCall(Top).schema)
    /\ Len(stack) = MaxDepth
    /\ rpc' = "overflow"
    /\ UNCHANGED <<doc, cur, hops, stack, arrays, schemaText, result, calls, argVars, mergeVars, findVars>>

(***************************************************************************)
(* formatSchema(undefined): `schema.type` throws a TypeError.              *)
(***************************************************************************)
FormatSchemaThrow ==
    /\ rpc = "format"
    /\ Top.schema = UNDEF
    /\ rpc' = "threw"
    /\ UNCHANGED <<doc, cur, hops, stack, arrays, schemaText, result, calls, argVars, mergeVars, findVars>>

(***************************************************************************)
(* formatSchema returns: to the formatInnerSchema call of the enclosing    *)
(* formatSchema, or to getSchemaPartText.                                  *)
(***************************************************************************)
FormatSchemaReturn ==
    /\ rpc = "format"
    /\ Top.schema # UNDEF
    /\ ~Pending(Top)
    /\ LET text == FormatSchemaText(Top.schema, Top.parts)
           depth == Len(stack)
       IN  IF depth > 1
           THEN /\ stack' = [SubSeq(stack, 1, depth - 1)
                                EXCEPT ![depth - 1].parts = Append(@, text)]
                /\ UNCHANGED <<rpc, schemaText>>
           ELSE /\ stack' = <<>>
                /\ schemaText' = text
                /\ rpc' = "text"
    /\ UNCHANGED <<doc, cur, hops, arrays, result, calls, argVars, mergeVars, findVars>>

(***************************************************************************)
(* The rest of getSchemaPartText: the description, trimmed and cut at the  *)
(* first blank line, goes on a line of its own after the type string.      *)
(***************************************************************************)
GetSchemaPartTextReturn ==
    /\ rpc = "text"
    /\ result' = IF IsNode(doc, cur) /\ doc[cur].hasDescription
                 THEN schemaText \o "\n" \o DescriptionText(doc[cur].description) \o "\n"
                 ELSE schemaText
    /\ rpc' = "done"
    /\ UNCHANGED <<doc, cur, hops, stack, arrays, schemaText, calls, argVars, mergeVars, findVars>>

RenderNext ==
    \/ GetSchemaPartTextCall
    \/ ResolveRef
    \/ FormatSchemaCall
    \/ FormatInnerSchemaPlain
    \/ FormatInnerSchemaRecursive
    \/ FormatInnerSchemaAddSelf
    \/ StackOverflow
    \/ FormatSchemaThrow
    \/ FormatSchemaReturn
    \/ GetSchemaPartTextReturn

SpecRender == RenderInit /\ [][RenderNext]_vars

(***************************************************************************)
(*                     filterErrors and validateConfig                     *)
(***************************************************************************)
MergeInit ==
    /\ \E n \in 0..MaxErrors :
          /\ errors = [k \in 1..n |-> k]
          /\ dataPath \in [1..n -> Paths]
          /\ children = [k \in 1..n |-> Undefined]
    /\ newErrors = <<>>
    /\ processed = 0
    /\ fpc = "loop"
    /\ callbackArg = <<>>
    /\ RenderOff
    /\ FindOff

(***************************************************************************)
(* One iteration of `for (const error of errors)`.                         *)
(***************************************************************************)
FilterErrorsStep ==
    /\ fpc = "loop"
    /\ processed < Len(errors)
    /\ LET error == errors[processed + 1]
           pass == FilterPass(newErrors, 1, dataPath[error], <<>>, <<>>, children)
       IN  /\ children' = IF Len(pass.acc) > 0
                          THEN [pass.ch EXCEPT ![error] = ArrayOf(pass.acc)]
                          ELSE pass.ch
           /\ newErrors' = Append(pass.kept, error)
    /\ processed' = processed + 1
    /\ UNCHANGED <<errors, dataPath, fpc, callbackArg, renderVars, findVars>>

(***************************************************************************)
(* `return newErrors` once the loop has run over every input record.       *)
(***************************************************************************)
FilterErrorsReturn ==
    /\ fpc = "loop"
    /\ processed = Len(errors)
    /\ fpc' = "done"
    /\ UNCHANGED <<errors, dataPath, children, newErrors, processed,
                   callbackArg, renderVars, findVars>>

(***************************************************************************)
(* validateConfig: after normaliseErrorMessages has returned, the same     *)
(* validator.errors array is handed to the errorMessage callback.          *)
(***************************************************************************)
ErrorMessageCallback ==
    /\ fpc = "done"
    /\ callbackArg' = [k \in 1..Len(errors) |-> children[errors[k]]]
    /\ fpc' = "reported"
    /\ UNCHANGED <<errors, dataPath, children, newErrors, processed, renderVars, findVars>>

MergeNext == FilterErrorsStep \/ FilterErrorsReturn \/ ErrorMessageCallback

SpecMerge == MergeInit /\ [][MergeNext]_vars

(***************************************************************************)
(*                           findAndReadConfig                             *)
(***************************************************************************)

\* The candidate files, by extension, in the order of the array literal.
ConfigFiles(v) ==
    IF v = "old" THEN <<"yml", "yaml", "json", "json5", "toml">>
    ELSE <<"yml", "yaml", "json", "json5", "toml", "js", "cjs", "ts">>

\* The parsers that can yield null or undefined: js-yaml for an empty
\* document, json5 for the text `null`.
CanParseToNull(ext) == ext \in {"yml", "yaml", "json", "json5"}

(***************************************************************************)
(* How readConfig(file) can end: fs.readFile rejects with code ENOENT,     *)
(* ENOTDIR or another one (EACCES), the parser throws (SyntaxError), or    *)
(* the file is read and parsed, to null / undefined or to a value.         *)
(***************************************************************************)
ReadOutcomes(ext) ==
    {"ENOENT", "ENOTDIR", "EACCES", "SyntaxError", "value"}
    \cup (IF CanParseToNull(ext) THEN {"null"} ELSE {})

\* The handler treating every rejection as a missing file.
IsFileNotExistAnyError(code) == TRUE

\* orIfFileNotExist, the test of its catch handler.
IsFileNotExist(code) == code \in {"ENOENT", "ENOTDIR"}

(***************************************************************************)
(* What readConfig resolves with: the parsed value itself in main.ts, the  *)
(* object {result, configFile} in the newer source.                        *)
(***************************************************************************)
ReadConfigData(v, ext, outcome) ==
    IF v = "old"
    THEN [tag |-> IF outcome = "null" THEN "null" ELSE "data",
          file |-> ext, result |-> outcome]
    ELSE [tag |-> "data", file |-> ext, result |-> outcome]

FindInit ==
    /\ variant \in {"old", "new"}
    /\ probedFiles = <<>>
    /\ outcomes = <<>>
    /\ fstate = "probing"
    /\ found = Pending0
    /\ MergeOff
    /\ RenderOff

(***************************************************************************)
(* One iteration of `for (const configFile of [...])`: await the read      *)
(* wrapped in orNullIfFileNotExist, return data when it is not null.       *)
(***************************************************************************)
ProbeConfigFile ==
    /\ fstate = "probing"
    /\ Len(probedFiles) < Len(ConfigFiles(variant))
    /\ LET ext == ConfigFiles(variant)[Len(probedFiles) + 1]
       IN  \E outcome \in ReadOutcomes(ext) :
              /\ probedFiles' = Append(probedFiles, ext)
              /\ outcomes' = Append(outcomes, outcome)
              /\ IF outcome \notin {"value", "null"}
                 THEN IF IsFileNotExist(outcome)
                      THEN UNCHANGED <<fstate, found>>
                      ELSE /\ fstate' = "rejected"
                           /\ found' = [tag |-> "error", file |-> ext, result |-> outcome]
                 ELSE LET data == ReadConfigData(variant, ext, outcome)
                      IN  IF data.tag # "null"
                          THEN /\ fstate' = "returned"
                               /\ found' = data
                          ELSE UNCHANGED <<fstate, found>>
    /\ UNCHANGED <<variant, mergeVars, renderVars>>

(***************************************************************************)
(* `return null` after the loop.                                           *)
(***************************************************************************)
FindReturnNull ==
    /\ fstate = "probing"
    /\ Len(probedFiles) = Len(ConfigFiles(variant))
    /\ fstate' = "returned"
    /\ found' = [tag |-> "null", file |-> "", result |-> ""]
    /\ UNCHANGED <<variant, probedFiles, outcomes, mergeVars, renderVars>>

FindNext == ProbeConfigFile \/ FindReturnNull

SpecFind == FindInit /\ [][FindNext]_vars

(***************************************************************************)
(*                      Properties of filterErrors                         *)
(***************************************************************************)

TopPath(x) == dataPath[newErrors[x]]

\* The records reachable by walking a node and its children, every visit counted.
RECURSIVE ForestSize(_, _)
ForestSize(nodes, fuel) ==
    IF nodes = <<>> \/ fuel = 0 THEN 0
    ELSE 1 + ForestSize(children[Head(nodes)].items, fuel - 1)
           + ForestSize(Tail(nodes), fuel)

\* C1 (as stated): in the sequence returned by filterErrors no two top-level
\* nodes have overlapping dataPaths: for two different positions neither
\* dataPath is identical to, contains, or is contained in the other.
C1_NoOverlappingSiblings ==
    fpc = "done" =>
        \A x, y \in 1..Len(newErrors) :
            x # y => ~Includes(TopPath(x), TopPath(y))

\* C1 (amended): in the sequence returned by filterErrors no top-level node's
\* dataPath contains the dataPath of a top-level node that comes after it; in
\* particular no two top-level nodes have the same dataPath.
C1_NoLaterPathInsideEarlier ==
    fpc = "done" =>
        \A x, y \in 1..Len(newErrors) :
            x < y => ~Includes(TopPath(x), TopPath(y))

C1_Witness ==
    /\ fpc = "done"
    /\ Len(newErrors) >= 2
    /\ \E x \in 1..Len(newErrors) : children[newErrors[x]].tag = "array"

\* C2: filterErrors never drops an error: the number of records met when
\* walking the returned forest (top-level nodes and their children) equals
\* the number of input errors.
C2_NeverDropsAnError ==
    fpc = "done" => ForestSize(newErrors, Len(errors) + 1) = Len(errors)

C2_Witness ==
    /\ fpc = "done"
    /\ Len(errors) >= 3
    /\ Len(newErrors) = 1
    /\ Len(children[newErrors[1]].items) >= 2
    /\ Includes(dataPath[1], dataPath[2])

\* C3: right after filterErrors has processed an error whose dataPath is the
\* empty string, the output sequence is exactly that error, and every error
\* processed before it is among its children with its own children cleared.
C3_RootPathAbsorbsAll ==
    (processed >= 1 /\ dataPath[errors[processed]] = <<>>) =>
        LET root == errors[processed]
        IN  /\ newErrors = <<root>>
            /\ \A k \in 1..(processed - 1) :
                  /\ \E c \in 1..Len(children[root].items) :
                        children[root].items[c] = errors[k]
                  /\ children[errors[k]] = Null

C3_Witness ==
    /\ processed = 3
    /\ dataPath[errors[3]] = <<>>
    /\ dataPath[errors[2]] # <<>>
    /\ Includes(dataPath[errors[1]], dataPath[errors[2]])

\* C7: the input error records are read-only: when filterErrors has returned,
\* every input record, its children field included, is as it was before the
\* call (the validator's records carry no children field), so the errorMessage
\* callback receives the validator's original data.
C7_InputRecordsUnchanged ==
    fpc = "reported" => \A k \in 1..Len(errors) : callbackArg[k] = Undefined

(***************************************************************************)
(*                     Properties of SchemeErrorPrinter                    *)
(***************************************************************************)

Chain(k) == arrays[stack[k].prev]

\* A formatSchema call returns in this step, and the string it returns.
Returns == rpc = "format" /\ Len(stack') = Len(stack) - 1
Returned == IF Len(stack) > 1 THEN stack'[Len(stack')].parts[Len(stack'[Len(stack')].parts)]
            ELSE schemaText'

\* C4: for every schema whose $ref chain comes back to a node that is being
\* rendered, formatSchema terminates (with "(recursive)" at the revisit): the
\* nesting of formatSchema calls never grows without bound.
C4_CyclesTerminate == rpc # "overflow"

\* C5: the core never fails: getSchemaPartText / formatSchema return a string
\* and never raise, also for a schema in which optional keys (such as items of
\* an array) are absent.
C5_NeverRaises == rpc # "threw"

\* ---- the priority table of formatSchema, row by row ----
TableHas(s, key) == Append(s, key) \in DOMAIN doc
TableAdditionalTruthy(s) == TableHas(s, "additionalProperties") \/ doc[s].addl = "true"

\* The first row whose condition the node meets; additionalSchemaOnly says
\* whether the row `object { <key>: ... }` asks for a schema (TRUE) or for
\* any truthy additionalProperties (FALSE).
TableRow(s, additionalSchemaOnly) ==
    IF s = TRUEV THEN 16
    ELSE LET n == doc[s]
         IN  CASE n.type = "string" /\ n.minLength = 1 -> 1
               [] n.type = "string" /\ n.minLength > 1 -> 2
               [] n.type = "string" -> 3
               [] n.type = "boolean" -> 4
               [] n.type = "number" -> 5
               [] n.type = "object" /\ TableHas(s, "properties") -> 6
               [] n.type = "object" /\ ~TableHas(s, "properties")
                    /\ (IF additionalSchemaOnly THEN TableHas(s, "additionalProperties")
                        ELSE TableAdditionalTruthy(s)) -> 7
               [] n.type = "object" /\ ~TableHas(s, "properties")
                    /\ ~(IF additionalSchemaOnly THEN TableHas(s, "additionalProperties")
                         ELSE TableAdditionalTruthy(s)) -> 8
               [] n.type = "array" -> 9
               [] n.type \notin {"string", "boolean", "number", "object", "array"} ->
                    IF n.instanceof = "Function" THEN 10
                    ELSE IF n.instanceof = "RegExp" THEN 11
                    ELSE IF n.ref # <<>> THEN 12
                    ELSE IF TableHas(s, "allOf") THEN 13
                    ELSE IF TableHas(s, "oneOf") \/ TableHas(s, "anyOf") THEN 14
                    ELSE IF n.hasEnum THEN 15
                    ELSE 16

\* `name` or `name?` for the k-th declared property.
TableProperty(s, k) ==
    LET name == doc[Append(s, "properties")].keys[k]
    IN  IF name \in {doc[s].required[r] : r \in 1..Len(doc[s].required)}
        THEN name ELSE name \o "?"

\* The output of a row, given the renderings of the nested schemas.
TableOutput(s, row, rendered) ==
    CASE row = 1 -> "non-empty string"
      [] row = 2 -> "string (min length " \o ToString(doc[s].minLength) \o ")"
      [] row = 3 -> "string"
      [] row = 4 -> "boolean"
      [] row = 5 -> "number"
      [] row = 6 ->
            "object { "
            \o Join([k \in 1..Len(doc[Append(s, "properties")].keys) |-> TableProperty(s, k)]
                    \o (IF TableAdditionalTruthy(s) THEN <<"...">> ELSE <<>>), ", ")
            \o " }"
      [] row = 7 -> "object { <key>: " \o rendered[1] \o " }"
      [] row = 8 -> "object"
      [] row = 9 -> "[" \o rendered[1] \o "]"
      [] row = 10 -> "function"
      [] row = 11 -> "RegExp"
      [] row = 12 -> rendered[1]
      [] row = 13 -> Join(rendered, " & ")
      [] row = 14 -> Join(rendered, " | ")
      [] row = 15 -> Join([k \in 1..Len(doc[s].enum) |-> JsonLiteral(doc[s].enum[k])], " | ")
      [] row = 16 -> JsonStringify(s)

\* C6 (as stated): whatever formatSchema returns for a schema node is the
\* output of the first matching row of the priority table, the row
\* `object { <key>: ... }` being that of an object without properties whose
\* additionalProperties is a schema.
C6_FirstMatchingRow ==
    [][Returns => Returned = TableOutput(Top.schema, TableRow(Top.schema, TRUE), Top.parts)]_vars

\* C6 (amended): whatever formatSchema returns for a schema node is the output
\* of the first matching row of the priority table, the row
\* `object { <key>: ... }` being that of an object without properties whose
\* additionalProperties is truthy: a schema, or true (rendered as `true`).
C6_FirstMatchingRowTruthy ==
    [][Returns => Returned = TableOutput(Top.schema, TableRow(Top.schema, FALSE), Top.parts)]_vars

C6_Witness ==
    /\ rpc = "done"
    /\ cur = DefB
    /\ doc[DefA].ref # <<>>
    /\ doc[DefA].required = <<"a">>
    /\ result = "[object { a, b?, ... }]"

\* C8: the ancestor chain is scoped per render path: the outermost
\* formatSchema call of every render starts from an empty chain, and the chain
\* of every nested call is its caller's chain, or that chain with the caller
\* added, whatever was rendered before on other branches or in earlier calls.
C8_ChainScopedPerPath ==
    Len(stack) >= 1 =>
        /\ Chain(1) = <<>>
        /\ \A k \in 2..Len(stack) :
              \/ Chain(k) = Chain(k - 1)
              \/ Chain(k) = Append(Chain(k - 1), stack[k - 1].schema)

C8_Witness ==
    /\ calls = 2
    /\ rpc = "format"
    /\ Len(stack) >= 2
    /\ Branch(stack[1].schema) \in CombKinds
    /\ Len(stack[1].parts) >= 1
    /\ Len(Chain(Len(stack))) >= 1
    /\ Len(arrays) >= 4

\* C9: the $ref resolution loop at the top of getSchemaPartText terminates
\* for every root schema and starting node, reference cycles included.
C9_RefLoopTerminates == rpc # "hung"

\* C10: the ancestor chain is extended only when a $ref is followed: a nested
\* call whose chain differs from its caller's is made by a $ref node only, and
\* "(recursive)" is put out for a $ref only, never for a nested member.
C10_ChainExtendedOnlyByRef ==
    [][(rpc = "format" /\ Len(stack) >= 1) =>
          /\ (/\ Len(stack') = Len(stack) + 1
              /\ arrays'[stack'[Len(stack')].prev] # Chain(Len(stack)))
                 => Branch(Top.schema) = "ref"
          /\ (Len(stack') = Len(stack) /\ stack' # stack)
                 => Branch(Top.schema) = "ref"]_vars

\* The node reached from schemaPart by the longest prefix of path whose
\* segments all exist: the descent stops at the first missing segment.
RECURSIVE LongestExistingPrefix(_, _, _)
LongestExistingPrefix(schemaPart, path, i) ==
    IF i > Len(path) THEN schemaPart
    ELSE LET inner == Property(schemaPart, path[i])
         IN  IF inner # UNDEF THEN LongestExistingPrefix(inner, path, i + 1)
             ELSE schemaPart

\* C11: getSchemaPartText descends through the segments of additionalPath in
\* order and stops at the first segment that is not a key of the current
\* node: the node it goes on with is the one reached by the longest existing
\* prefix of the segments, no later segment being applied after a missing one.
C11_StopsAtFirstMissingSegment ==
    (rpc = "resolve" /\ hops = 0) =>
        cur = LongestExistingPrefix(schemaPartArg, additionalPath, 1)

(***************************************************************************)
(*                     Properties of findAndReadConfig                     *)
(***************************************************************************)

\* The fixed order of the candidates.
FixedOrder ==
    IF variant = "old" THEN <<"yml", "yaml", "json", "json5", "toml">>
    ELSE <<"yml", "yaml", "json", "json5", "toml", "js", "cjs", "ts">>

Missing == {"ENOENT", "ENOTDIR"}
LastOutcome == outcomes[Len(outcomes)]

\* The parts of C12 that do not depend on what lets the loop move on.
ProbesInFixedOrder ==
    /\ Len(probedFiles) <= Len(FixedOrder)
    /\ probedFiles = SubSeq(FixedOrder, 1, Len(probedFiles))
    /\ Len(outcomes) = Len(probedFiles)
    /\ (fstate = "rejected") <=>
          (outcomes # <<>> /\ LastOutcome \in {"EACCES", "SyntaxError"})
    /\ fstate = "rejected" =>
          found = [tag |-> "error", file |-> probedFiles[Len(probedFiles)],
                   result |-> LastOutcome]
    /\ (fstate = "returned" /\ found.tag = "data") =>
          found.file = probedFiles[Len(probedFiles)]

\* C12 (as stated): the candidates are probed in the fixed order; the result
\* returned is that of the first candidate whose read gave non-null data, and
\* it is the last one probed; the loop has moved on only after ENOENT / ENOTDIR;
\* any other error rejects at once; null is returned only when every
\* candidate was missing.
C12_MovesOnOnlyWhenMissing ==
    /\ ProbesInFixedOrder
    /\ \A k \in 1..(Len(outcomes) - 1) : outcomes[k] \in Missing
    /\ (fstate = "returned" /\ found.tag = "data") => LastOutcome \in {"value", "null"}
    /\ (fstate = "returned" /\ found.tag = "null") =>
          /\ Len(probedFiles) = Len(FixedOrder)
          /\ \A k \in 1..Len(outcomes) : outcomes[k] \in Missing

\* What lets the loop go on to the next candidate: a missing file, and in
\* main.ts also a file that parsed to null or undefined.
PassedOver == IF variant = "old" THEN Missing \cup {"null"} ELSE Missing

\* C12 (amended): the candidates are probed in the fixed order; the loop has
\* moved on only after ENOENT / ENOTDIR or, in main.ts, after a file that was
\* read and parsed to null / undefined; what is returned is the data of the
\* last candidate probed, the first one not passed over (in the newer source
\* any file read without error, its result possibly null); any other error
\* rejects at once; null is returned only when every candidate was passed over.
C12_MovesOnWhenMissingOrNull ==
    /\ ProbesInFixedOrder
    /\ \A k \in 1..(Len(outcomes) - 1) : outcomes[k] \in PassedOver
    /\ (fstate = "returned" /\ found.tag = "data") =>
          /\ LastOutcome \in {"value", "null"} \ PassedOver
          /\ found.result = LastOutcome
    /\ (fstate = "returned" /\ found.tag = "null") =>
          /\ Len(probedFiles) = Len(FixedOrder)
          /\ \A k \in 1..Len(outcomes) : outcomes[k] \in PassedOver

C12_Witness ==
    /\ variant = "old"
    /\ fstate = "returned"
    /\ found.tag = "data"
    /\ outcomes = <<"ENOENT", "null", "ENOTDIR", "value">>

====
